---- MODULE Spec2Model ----
(***************************************************************************)
(* Model of tools/switchbot.py: argument validation, the BLE scan with the *)
(* SwitchbotScanDelegate (handleDiscovery, _decodeSensorData) and the      *)
(* final report that writes the reading to a file.                         *)
(*                                                                         *)
(* Strings the program inspects character by character (hex payloads,      *)
(* MAC addresses) are sequences of one-character strings.  The float       *)
(* Temperature is kept in tenths of a degree as an integer: for every      *)
(* nibble n in 0..15 and integer part i in 0..127 the double n/10 + i is   *)
(* the double nearest to the decimal i.n, so the tenths determine it.      *)
(***************************************************************************)
EXTENDS Integers, Sequences, FiniteSets, TLC

VARIABLES
    argv,         \* sys.argv: <<prog, address [, directory, ...]>>
    pc,           \* position of the script (Spec) / of the decoder call (SpecDecode)
    mac,          \* module variable mac (line 13)
    dir,          \* module variable dir (lines 14-16)
    sensorValue,  \* delegate.sensorValue, None until a decode succeeds
    outFile,      \* the file written at lines 54-56, NoFile until then
    dev,          \* the ScanEntry last handed to handleDiscovery
    prevValue,    \* sensorValue as it was when the last call started
    calls,        \* arguments of _decodeSensorData during the last call
    exc,          \* exception that left the last call, "none" if it returned
    valueStr      \* SpecDecode only: the argument given to _decodeSensorData

vars == <<argv, pc, mac, dir, sensorValue, outFile, dev, prevValue, calls,
          exc, valueStr>>

(***************************************************************************)
(* Bounds of the model.                                                    *)
(***************************************************************************)
\* longest getScanData() list of one Discovery Event
MaxElems == 2
\* most bytes a payload of SpecDecode carries beyond index 5
MaxExtra == 1

(***************************************************************************)
(* Python values.                                                          *)
(***************************************************************************)
None == <<>>
NoFile == <<>>
NoDev == <<>>

HexDigits == <<"0", "1", "2", "3", "4", "5", "6", "7",
               "8", "9", "a", "b", "c", "d", "e", "f">>
UpperHexDigits == <<"0", "1", "2", "3", "4", "5", "6", "7",
                    "8", "9", "A", "B", "C", "D", "E", "F">>

\* the value of each hexadecimal digit, lower or upper case
HexTable ==
    [c \in {HexDigits[i] : i \in 1..16} \cup {UpperHexDigits[i] : i \in 1..16}
        |-> IF \E i \in 1..16 : HexDigits[i] = c
            THEN (CHOOSE i \in 1..16 : HexDigits[i] = c) - 1
            ELSE (CHOOSE i \in 1..16 : UpperHexDigits[i] = c) - 1]

\* value of a hexadecimal digit, -1 for any other character
HexVal(c) == IF c \in DOMAIN HexTable THEN HexTable[c] ELSE -1

\* ASCII white space (the vertical tab cannot be written here)
IsSpace(c) == c \in {" ", "\t", "\n", "\r", "\f"}

\* str.lower() on one character
LowerChar(c) ==
    IF \E i \in 11..16 : UpperHexDigits[i] = c
    THEN HexDigits[CHOOSE i \in 11..16 : UpperHexDigits[i] = c]
    ELSE c

\* str.lower()
Lower(s) == [i \in DOMAIN s |-> LowerChar(s[i])]

\* s[n:]
SliceFrom(s, n) == IF Len(s) <= n THEN <<>> ELSE SubSeq(s, n + 1, Len(s))

\* a & b on non-negative integers, bit by bit
RECURSIVE BitAnd(_, _)
BitAnd(a, b) ==
    IF a = 0 \/ b = 0 THEN 0
    ELSE (a % 2) * (b % 2) + 2 * BitAnd(a \div 2, b \div 2)

\* bytes.fromhex(s) from position i on: white space between bytes is
\* skipped, two hexadecimal digits make a byte, anything else is a ValueError
RECURSIVE FromHexAt(_, _, _)
FromHexAt(s, i, acc) ==
    IF i > Len(s) THEN [exc |-> "none", bytes |-> acc]
    ELSE IF IsSpace(s[i]) THEN FromHexAt(s, i + 1, acc)
    ELSE IF HexVal(s[i]) < 0 THEN [exc |-> "ValueError", bytes |-> <<>>]
    ELSE IF i + 1 > Len(s) \/ HexVal(s[i + 1]) < 0
    THEN [exc |-> "ValueError", bytes |-> <<>>]
    ELSE FromHexAt(s, i + 2,
                   Append(acc, 16 * HexVal(s[i]) + HexVal(s[i + 1])))

FromHex(s) == FromHexAt(s, 1, <<>>)

(***************************************************************************)
(* SwitchbotScanDelegate                                                   *)
(***************************************************************************)
\* the description the delegate looks for (line 29)
ServiceDataDesc == "16b Service Data"

\* line 34
BattOf(b) == BitAnd(b, 127)

\* faulty variant of line 35: tests bit 6 instead of bit 7
IsTemperatureAboveFreezingBit6(b) == BitAnd(b, 64) # 0

\* line 35
IsTemperatureAboveFreezing(b) == BitAnd(b, 128) # 0

\* lines 36-38, in tenths of a degree
TempOf(b3, b4) ==
    LET temp == BitAnd(b3, 15) + 10 * BitAnd(b4, 127)
    IN  IF ~IsTemperatureAboveFreezing(b4) THEN -temp ELSE temp

\* faulty variant of line 39: the mask is missing
HumidOfUnmasked(b) == b

\* line 39
HumidOf(b) == BitAnd(b, 127)

\* lines 40-44: the dict assigned to self.sensorValue
Reading(temp, humid, batt) ==
    [Temperature |-> temp, Humidity |-> humid, BatteryVoltage |-> batt]

\* faulty variant of _decodeSensorData: the slot is cleared on entry, so a
\* failed decode loses the reading that was there
DecodeSensorDataClearing(slot, v) ==
    LET vb == FromHex(SliceFrom(v, 4))
    IN  IF vb.exc # "none" THEN [exc |-> vb.exc, sensorValue |-> None]
        ELSE IF Len(vb.bytes) <= 5
        THEN [exc |-> "IndexError", sensorValue |-> None]
        ELSE [exc |-> "none",
              sensorValue |-> Reading(TempOf(vb.bytes[4], vb.bytes[5]),
                                      HumidOf(vb.bytes[6]),
                                      BattOf(vb.bytes[3]))]

\* _decodeSensorData(self, valueStr) on a delegate whose sensorValue is slot:
\* the exception that leaves the call and the sensorValue it leaves behind.
\* valueBinary[k] is vb.bytes[k + 1]; the indexings happen in the order
\* 2, 4, 3, 4, 5 and each raises IndexError on a payload too short for it.
DecodeSensorData(slot, v) ==
    LET vb == FromHex(SliceFrom(v, 4))
        n  == Len(vb.bytes)
    IN  IF vb.exc # "none" THEN [exc |-> vb.exc, sensorValue |-> slot]
        ELSE IF n <= 2 THEN [exc |-> "IndexError", sensorValue |-> slot]
        ELSE IF n <= 4 THEN [exc |-> "IndexError", sensorValue |-> slot]
        ELSE IF n <= 3 THEN [exc |-> "IndexError", sensorValue |-> slot]
        ELSE IF n <= 5 THEN [exc |-> "IndexError", sensorValue |-> slot]
        ELSE [exc |-> "none",
              sensorValue |-> Reading(TempOf(vb.bytes[4], vb.bytes[5]),
                                      HumidOf(vb.bytes[6]),
                                      BattOf(vb.bytes[3]))]

\* faulty variant of line 27: compares the first four characters only
AddrMatchesPrefix(addr, macaddr) ==
    SubSeq(addr, 1, 4) = SubSeq(macaddr, 1, 4)

\* line 27
AddrMatches(addr, macaddr) == addr = macaddr

\* faulty variant of line 29: accepts a second spelling of the description
DescMatchesLoose(desc) ==
    desc \in {"16b Service Data", "16-bit Service Data"}

\* line 29
DescMatches(desc) == desc = ServiceDataDesc

\* the for loop of lines 28-30 from element i on; an exception raised by
\* _decodeSensorData is not caught and ends the loop
RECURSIVE ScanDataLoop(_, _, _, _)
ScanDataLoop(slot, data, i, log) ==
    IF i > Len(data) THEN [exc |-> "none", sensorValue |-> slot, calls |-> log]
    ELSE IF DescMatches(data[i].desc)
    THEN LET r == DecodeSensorData(slot, data[i].value)
         IN  IF r.exc # "none"
             THEN [exc |-> r.exc, sensorValue |-> r.sensorValue,
                   calls |-> Append(log, data[i].value)]
             ELSE ScanDataLoop(r.sensorValue, data, i + 1,
                               Append(log, data[i].value))
    ELSE ScanDataLoop(slot, data, i + 1, log)

\* handleDiscovery(self, dev, isNewDev, isNewData)
HandleDiscoveryResult(slot, macaddr, d) ==
    IF AddrMatches(d.addr, macaddr)
    THEN ScanDataLoop(slot, d.scanData, 1, <<>>)
    ELSE [exc |-> "none", sensorValue |-> slot, calls |-> <<>>]

(***************************************************************************)
(* Inputs: command lines, the file system, Discovery Events.               *)
(***************************************************************************)
Prog == "switchbot.py"
TargetAddr == <<"a", "4", ":", "c", "1">>
TargetAddrUpper == <<"A", "4", ":", "C", "1">>
OtherAddr == <<"a", "4", ":", "c", "2">>

\* os.getcwd()
Cwd == "/root"
\* the directories os.path.isdir() finds
ExistingDirs == {Cwd, "/var/lib/munin"}
IsDir(d) == d \in ExistingDirs

ArgvSet ==
    {<<Prog>>}
    \cup {<<Prog, a>> : a \in {TargetAddr, TargetAddrUpper}}
    \cup {<<Prog, a, d>> : a \in {TargetAddr, TargetAddrUpper},
                           d \in {"/var/lib/munin", "/nonexistent"}}

\* two hexadecimal digits for a byte, as binascii.b2a_hex prints it
ToHexByte(b) == <<HexDigits[(b \div 16) + 1], HexDigits[(b % 16) + 1]>>

RECURSIVE HexOf(_)
HexOf(bs) == IF bs = <<>> THEN <<>> ELSE ToHexByte(Head(bs)) \o HexOf(Tail(bs))

\* the service UUID that precedes the payload in 16b Service Data
UuidPrefix == <<"0", "0", "0", "d">>

\* payload bytes 00 00 4B 05 95 32 and the same with byte 4 = 15
CanonBytes == <<0, 0, 75, 5, 149, 50>>
CanonNegBytes == <<0, 0, 75, 5, 21, 50>>

GoodPos == UuidPrefix \o HexOf(CanonBytes)
GoodNeg == UuidPrefix \o HexOf(CanonNegBytes)
\* service data of two payload bytes
ShortData == UuidPrefix \o HexOf(<<84, 16>>)

Elements ==
    {[adtype |-> 22, desc |-> "16b Service Data", value |-> v] :
        v \in {GoodPos, GoodNeg, ShortData}}
    \cup {[adtype |-> 22, desc |-> "16-bit Service Data", value |-> GoodPos],
          [adtype |-> 255, desc |-> "Manufacturer", value |-> GoodNeg]}

RECURSIVE SeqsUpTo(_, _)
SeqsUpTo(S, n) ==
    IF n = 0 THEN {<<>>}
    ELSE LET shorter == SeqsUpTo(S, n - 1)
         IN  shorter \cup {Append(s, e) : s \in shorter, e \in S}

Events ==
    {[addr |-> a, scanData |-> s] :
        a \in {TargetAddr, OtherAddr}, s \in SeqsUpTo(Elements, MaxElems)}

(***************************************************************************)
(* The script.                                                             *)
(***************************************************************************)
\* mac.replace(':', '')
RECURSIVE RemoveColons(_)
RemoveColons(s) ==
    IF s = <<>> THEN <<>>
    ELSE IF Head(s) = ":" THEN RemoveColons(Tail(s))
    ELSE <<Head(s)>> \o RemoveColons(Tail(s))

\* lines 54-56: one "key value" line per item of the dict, in insertion order
FileLines(r) ==
    <<<<"Temperature", r.Temperature>>, <<"Humidity", r.Humidity>>,
      <<"BatteryVoltage", r.BatteryVoltage>>>>

Init ==
    /\ argv \in ArgvSet
    /\ pc = "start"
    /\ mac = <<>>
    /\ dir = ""
    /\ sensorValue = None
    /\ outFile = NoFile
    /\ dev = NoDev
    /\ prevValue = None
    /\ calls = <<>>
    /\ exc = "none"
    /\ valueStr = <<>>

\* lines 9-10: no address argument
UsageExit ==
    /\ pc = "start"
    /\ Len(argv) < 2
    /\ pc' = "exit_usage"
    /\ UNCHANGED <<argv, mac, dir, sensorValue, outFile, dev, prevValue,
                   calls, exc, valueStr>>

\* lines 13-18: a directory argument that is no directory
NotDirExit ==
    /\ pc = "start"
    /\ Len(argv) >= 3
    /\ ~IsDir(argv[3])
    /\ pc' = "exit_notdir"
    /\ mac' = Lower(argv[2])
    /\ dir' = argv[3]
    /\ UNCHANGED <<argv, sensorValue, outFile, dev, prevValue, calls, exc,
                   valueStr>>

\* faulty variant of lines 13-18 and 46: the directory is not checked
StartScanUnchecked ==
    /\ pc = "start"
    /\ Len(argv) >= 2
    /\ pc' = "scan"
    /\ mac' = Lower(argv[2])
    /\ dir' = IF Len(argv) >= 3 THEN argv[3] ELSE Cwd
    /\ sensorValue' = None
    /\ UNCHANGED <<argv, outFile, dev, prevValue, calls, exc, valueStr>>

\* lines 13-18 and 46: the arguments are accepted, the delegate is
\* constructed (sensorValue None) and the scan starts
StartScan ==
    /\ pc = "start"
    /\ Len(argv) >= 2
    /\ Len(argv) >= 3 => IsDir(argv[3])
    /\ pc' = "scan"
    /\ mac' = Lower(argv[2])
    /\ dir' = IF Len(argv) >= 3 THEN argv[3] ELSE Cwd
    /\ sensorValue' = None
    /\ UNCHANGED <<argv, outFile, dev, prevValue, calls, exc, valueStr>>

\* line 47, one Discovery Event: the scanner calls handleDiscovery; an
\* exception leaving it leaves scan() and the script
Discover(d) ==
    /\ pc = "scan"
    /\ LET r == HandleDiscoveryResult(sensorValue, mac, d)
       IN  /\ sensorValue' = r.sensorValue
           /\ calls' = r.calls
           /\ exc' = r.exc
           /\ pc' = IF r.exc = "none" THEN "scan" ELSE "crashed"
    /\ dev' = d
    /\ prevValue' = sensorValue
    /\ UNCHANGED <<argv, mac, dir, outFile, valueStr>>

\* line 47: the scan window of 5 seconds closes
ScanReturn ==
    /\ pc = "scan"
    /\ pc' = "scanned"
    /\ UNCHANGED <<argv, mac, dir, sensorValue, outFile, dev, prevValue,
                   calls, exc, valueStr>>

\* lines 49-50
NotDiscoveredExit ==
    /\ pc = "scanned"
    /\ sensorValue = None
    /\ pc' = "exit_notdiscovered"
    /\ UNCHANGED <<argv, mac, dir, sensorValue, outFile, dev, prevValue,
                   calls, exc, valueStr>>

\* faulty variant of lines 49-56: the test for None is missing, so open()
\* creates the file before the loop over the items fails
WriteFileUnchecked ==
    /\ pc = "scanned"
    /\ outFile' = [dir |-> dir, name |-> RemoveColons(mac),
                   lines |-> IF sensorValue = None THEN <<>>
                             ELSE FileLines(sensorValue)]
    /\ pc' = "done"
    /\ UNCHANGED <<argv, mac, dir, sensorValue, dev, prevValue, calls, exc,
                   valueStr>>

\* lines 49-56
WriteFile ==
    /\ pc = "scanned"
    /\ sensorValue # None
    /\ outFile' = [dir |-> dir, name |-> RemoveColons(mac),
                   lines |-> FileLines(sensorValue)]
    /\ pc' = "done"
    /\ UNCHANGED <<argv, mac, dir, sensorValue, dev, prevValue, calls, exc,
                   valueStr>>

Next ==
    \/ UsageExit
    \/ NotDirExit
    \/ StartScan
    \/ \E d \in Events : Discover(d)
    \/ ScanReturn
    \/ NotDiscoveredExit
    \/ WriteFile

Spec == Init /\ [][Next]_vars

(***************************************************************************)
(* The decoder on its own: a delegate is constructed and                   *)
(* _decodeSensorData is called on it with a chosen argument, on an empty   *)
(* slot or after an earlier successful decode.                             *)
(***************************************************************************)
\* bs with byte k (from 0) replaced by b
WithByte(bs, k, b) == [i \in DOMAIN bs |-> IF i = k + 1 THEN b ELSE bs[i]]

\* s with character i (from 1) replaced by c
WithChar(s, i, c) == [j \in DOMAIN s |-> IF j = i THEN c ELSE s[j]]

\* s with character c inserted before position i
InsertChar(s, i, c) == SubSeq(s, 1, i - 1) \o <<c>> \o SubSeq(s, i, Len(s))

\* str.upper() on a string of hexadecimal digits
UpperHex(s) == [i \in DOMAIN s |-> UpperHexDigits[HexVal(s[i]) + 1]]

\* payloads of six bytes and more: every value of every byte of the two
\* canonical payloads, every low nibble of byte 3 under two high nibbles
\* with every value of byte 4, and up to MaxExtra bytes after byte 5
PayloadBytes ==
    {WithByte(base, k, b) :
        base \in {CanonBytes, CanonNegBytes}, k \in 0..5, b \in 0..255}
    \cup {<<0, 0, 75, 16 * h + n, b4, 50>> :
            h \in {0, 15}, n \in 0..15, b4 \in 0..255}
    \cup {base \o t :
            base \in {CanonBytes, CanonNegBytes, <<255, 255, 255, 255, 255, 255>>},
            t \in SeqsUpTo({0, 255}, MaxExtra)}

\* arguments no advertisement produces: cut short at every length, a
\* character that is no hexadecimal digit at every position, a space at
\* every position, upper case digits
OddInputs ==
    {SubSeq(GoodPos, 1, n) : n \in 0..(Len(GoodPos) - 1)}
    \cup {WithChar(v, i, "g") : v \in {GoodPos, GoodNeg}, i \in 1..Len(GoodPos)}
    \cup {InsertChar(v, i, " ") :
            v \in {GoodPos, GoodNeg}, i \in 1..(Len(GoodPos) + 1)}
    \cup {InsertChar(GoodPos \o <<"0">>, i, " ") : i \in 1..(Len(GoodPos) + 2)}
    \cup {UpperHex(GoodPos), UpperHex(GoodNeg)}

DecodeInputs ==
    {UuidPrefix \o HexOf(bs) : bs \in PayloadBytes} \cup OddInputs

InitDecode ==
    /\ argv = <<Prog, TargetAddr>>
    /\ pc = "new"
    /\ mac = TargetAddr
    /\ dir = Cwd
    /\ sensorValue = None
    /\ outFile = NoFile
    /\ dev = NoDev
    /\ prevValue = None
    /\ calls = <<>>
    /\ exc = "none"
    /\ valueStr \in DecodeInputs

\* an earlier call of _decodeSensorData that left a reading in the slot
PrimeCall(v) ==
    /\ pc = "new"
    /\ LET r == DecodeSensorData(sensorValue, v)
       IN  /\ sensorValue' = r.sensorValue
           /\ exc' = r.exc
    /\ prevValue' = sensorValue
    /\ calls' = <<v>>
    /\ pc' = "primed"
    /\ UNCHANGED <<argv, mac, dir, outFile, dev, valueStr>>

\* the call of _decodeSensorData(valueStr)
DecodeCall ==
    /\ pc \in {"new", "primed"}
    /\ LET r == DecodeSensorData(sensorValue, valueStr)
       IN  /\ sensorValue' = r.sensorValue
           /\ exc' = r.exc
    /\ prevValue' = sensorValue
    /\ calls' = <<valueStr>>
    /\ pc' = "returned"
    /\ UNCHANGED <<argv, mac, dir, outFile, dev, valueStr>>

NextDecode ==
    \/ \E v \in {GoodPos, GoodNeg} : PrimeCall(v)
    \/ DecodeCall

SpecDecode == InitDecode /\ [][NextDecode]_vars

(***************************************************************************)
(* Properties.                                                             *)
(***************************************************************************)
\* the values of the elements of data whose description is tag, in order
RECURSIVE Tagged(_, _)
Tagged(data, tag) ==
    IF data = <<>> THEN <<>>
    ELSE IF Head(data).desc = tag
    THEN <<Head(data).value>> \o Tagged(Tail(data), tag)
    ELSE Tagged(Tail(data), tag)

IsPrefix(s, t) == Len(s) <= Len(t) /\ s = SubSeq(t, 1, Len(s))

\* a Discovery Event has been handled, from the target / from another device
HandledTarget == IF dev = NoDev THEN FALSE ELSE dev.addr = mac
HandledOther == IF dev = NoDev THEN FALSE ELSE dev.addr # mac

\* the characters after the 4-character prefix
Body(v) == IF Len(v) <= 4 THEN <<>> ELSE SubSeq(v, 5, Len(v))

\* an even number of hexadecimal digits and nothing else
PlainHex(b) == Len(b) % 2 = 0 /\ \A i \in DOMAIN b : HexVal(b[i]) >= 0

\* byte k (from 0) of a string of hexadecimal digits
ByteAt(b, k) == 16 * HexVal(b[2 * k + 1]) + HexVal(b[2 * k + 2])

\* the argument is a prefix followed by six or more bytes in hexadecimal
SixBytes(v) == PlainHex(Body(v)) /\ Len(Body(v)) >= 12

\* the hexadecimal digits of b, and whether b holds anything but digits
\* and white space
DigitCount(b) == Cardinality({i \in DOMAIN b : HexVal(b[i]) >= 0})
HasForeignChar(b) == \E i \in DOMAIN b : HexVal(b[i]) < 0 /\ ~IsSpace(b[i])

\* C1: a Discovery Event whose address is not the target address never
\* invokes the decoder and leaves sensorValue as it was, whatever elements
\* it carries
C1_NonTargetIgnored ==
    HandledOther => calls = <<>> /\ sensorValue = prevValue /\ exc = "none"

C1_Witness ==
    /\ HandledOther
    /\ prevValue # None
    /\ Tagged(dev.scanData, "16b Service Data") # <<>>

\* C2 as stated: in an event from the target address that the handler
\* worked through, exactly the elements described "16-bit Service Data"
\* are forwarded to the decoder
C2_OriginalLiteral ==
    HandledTarget /\ exc = "none" =>
        calls = Tagged(dev.scanData, "16-bit Service Data")

\* C2 amended: in an event from the target address only elements described
\* "16b Service Data" reach the decoder, in order, each of them up to and
\* including the first whose decode raises (all of them when none raises);
\* an event without such an element leaves sensorValue as it was
C2_TagSelectivity ==
    HandledTarget =>
        LET t == Tagged(dev.scanData, "16b Service Data")
        IN  /\ IsPrefix(calls, t)
            /\ exc = "none" => calls = t
            /\ exc # "none" => calls # <<>>
            /\ t = <<>> => sensorValue = prevValue /\ exc = "none"

C2_Witness ==
    /\ HandledTarget
    /\ Len(dev.scanData) = 2
    /\ dev.scanData[1].desc = "16-bit Service Data"
    /\ dev.scanData[2].desc = "16b Service Data"
    /\ calls = <<dev.scanData[2].value>>
    /\ sensorValue # prevValue

\* the values of vs that the decoder accepts
RECURSIVE Decodable(_)
Decodable(vs) ==
    IF vs = <<>> THEN <<>>
    ELSE IF DecodeSensorData(None, Head(vs)).exc = "none"
    THEN <<Head(vs)>> \o Decodable(Tail(vs))
    ELSE Decodable(Tail(vs))

\* C3: the decoder has run once per matching element of the event, in
\* delivery order, and sensorValue is the decode of the last matching
\* element that decodes, or what it was when there is none
C3_LastWriteWins ==
    HandledTarget =>
        LET t == Tagged(dev.scanData, "16b Service Data")
            good == Decodable(t)
        IN  /\ calls = t
            /\ sensorValue =
                   IF good = <<>> THEN prevValue
                   ELSE DecodeSensorData(None, good[Len(good)]).sensorValue

\* C4 as stated: an argument that after the 4-character prefix is shorter
\* than 6 bytes or is not an even number of hexadecimal digits makes the
\* decoder raise and leaves sensorValue as it was
C4_OriginalMalformed ==
    pc = "returned" /\ (Len(Body(valueStr)) < 12 \/ ~PlainHex(Body(valueStr)))
        => exc # "none" /\ sensorValue = prevValue

\* C4 amended: an argument that after the 4-character prefix holds a
\* character that is neither a hexadecimal digit nor white space, or an odd
\* number of hexadecimal digits, or fewer than 12 of them (6 bytes), makes
\* the decoder raise ValueError or IndexError and leaves sensorValue as it
\* was
C4_MalformedLeavesSlot ==
    pc = "returned"
    /\ \/ HasForeignChar(Body(valueStr))
       \/ DigitCount(Body(valueStr)) % 2 = 1
       \/ DigitCount(Body(valueStr)) < 12
    => exc \in {"ValueError", "IndexError"} /\ sensorValue = prevValue

C4_Witness ==
    /\ pc = "returned"
    /\ prevValue # None
    /\ HasForeignChar(Body(valueStr))
    /\ exc = "ValueError"

\* C5: a malformed service-data element from the target does not end the
\* scan: the handler returns and has forwarded every matching element
C5_MalformedDoesNotCrash ==
    /\ pc # "crashed"
    /\ HandledTarget => exc = "none"
                        /\ calls = Tagged(dev.scanData, "16b Service Data")

\* C6: when the scan window closes with sensorValue empty the script ends
\* with the 'was not discovered' error and writes no file; a file is
\* written only by the step that follows the closed window with a reading
\* in sensorValue
C6_DiscoveryMiss ==
    [][/\ pc = "scanned" /\ sensorValue = None
            => pc' = "exit_notdiscovered" /\ outFile' = NoFile
       /\ pc' = "exit_notdiscovered" => sensorValue = None /\ outFile' = NoFile
       /\ outFile' # NoFile /\ outFile = NoFile
            => pc = "scanned" /\ sensorValue # None /\ pc' = "done"]_vars

C6_Witness ==
    /\ pc = "exit_notdiscovered"
    /\ HandledOther
    /\ Tagged(dev.scanData, "16b Service Data") # <<>>
    /\ outFile = NoFile

\* C7: for a payload of six or more bytes the decoder yields BatteryVoltage
\* = byte 2 mod 128, Humidity = byte 5 mod 128 and a Temperature of
\* (byte 3 mod 16) + 10 * (byte 4 mod 128) tenths, negated exactly when bit
\* 7 of byte 4 is 0; 00 00 4B 05 95 32 gives 75, 21.5, 50 and with byte 4 =
\* 15 gives -21.5
C7_DecodeFormula ==
    pc = "returned" /\ SixBytes(valueStr) =>
        LET b == Body(valueStr)
            tenths == (ByteAt(b, 3) % 16) + 10 * (ByteAt(b, 4) % 128)
        IN  /\ exc = "none"
            /\ sensorValue # None
            /\ sensorValue.BatteryVoltage = ByteAt(b, 2) % 128
            /\ sensorValue.Humidity = ByteAt(b, 5) % 128
            /\ sensorValue.Temperature =
                   IF ByteAt(b, 4) < 128 THEN 0 - tenths ELSE tenths
            /\ sensorValue.BatteryVoltage \in 0..127
            /\ sensorValue.Humidity \in 0..127
            /\ valueStr = GoodPos =>
                   /\ sensorValue.BatteryVoltage = 75
                   /\ sensorValue.Temperature = 215
                   /\ sensorValue.Humidity = 50
            /\ valueStr = GoodNeg => sensorValue.Temperature = 0 - 215

C7_Witness ==
    /\ pc = "returned"
    /\ Len(valueStr) > Len(GoodPos)
    /\ SixBytes(valueStr)
    /\ ByteAt(Body(valueStr), 2) = 255
    /\ sensorValue # None
    /\ sensorValue.BatteryVoltage = 127
    /\ sensorValue.Temperature = 1285

\* C8: every reading stored in sensorValue has exactly the keys SensorType,
\* Temperature, Humidity and BatteryVoltage, with SensorType "SwitchBot"
C8_FourKeys ==
    sensorValue # None =>
        /\ DOMAIN sensorValue =
               {"SensorType", "Temperature", "Humidity", "BatteryVoltage"}
        /\ sensorValue.SensorType = "SwitchBot"

\* C9: for a payload of six or more bytes the Temperature is <= 0 when bit
\* 7 of byte 4 is 0 and >= 0 when it is 1
C9_Sign ==
    pc = "returned" /\ SixBytes(valueStr) =>
        /\ exc = "none"
        /\ sensorValue # None
        /\ ByteAt(Body(valueStr), 4) < 128 => sensorValue.Temperature <= 0
        /\ ByteAt(Body(valueStr), 4) >= 128 => sensorValue.Temperature >= 0

C9_Witness ==
    /\ pc = "returned"
    /\ SixBytes(valueStr)
    /\ ByteAt(Body(valueStr), 3) % 16 >= 10
    /\ ByteAt(Body(valueStr), 4) = 0
    /\ sensorValue # None
    /\ sensorValue.Temperature < 0

\* C10: without an address argument, or with a directory argument that is
\* no directory, the script ends with an error before the scan starts: no
\* Discovery Event is handled, no reading is set, no file is written
C10_ConfigError ==
    Len(argv) < 2 \/ (Len(argv) >= 3 /\ ~IsDir(argv[3])) =>
        /\ pc \in {"start", "exit_usage", "exit_notdir"}
        /\ pc # "start" => pc = IF Len(argv) < 2 THEN "exit_usage"
                                ELSE "exit_notdir"
        /\ dev = NoDev
        /\ calls = <<>>
        /\ sensorValue = None
        /\ outFile = NoFile

C10_Witness ==
    /\ pc = "exit_notdir"
    /\ Len(argv) >= 3
    /\ mac = TargetAddr

====
